---- MODULE Spec2Model ----
(***************************************************************************)
(* PDF -> DOCX converter (app.py): one Streamlit script run of main() is   *)
(* one request.  The model follows main() statement by statement, through  *)
(* convert_pdf_to_docx_text and convert_pdf_to_docx_images, and keeps the  *)
(* temp files on disk, the document handles, the output document and the   *)
(* messages shown to the user.                                             *)
(***************************************************************************)
EXTENDS Integers, Sequences, FiniteSets, TLC

\* ---------------------------------------------------------------- bounds
MaxPages == 5    \* largest page count of an uploaded PDF
MaxStart == 6    \* largest value typed into "Start page (1-based)"
MaxEnd == 6      \* largest value typed into "End page (leave 0 for all)"

\* ---------------------------------------------------------------- values
\* Python's None for the integer-valued names (total_pages, end_page, s, e).
None == 0 - 1
\* "no exception pending"
NoExc == "None"

\* st.radio options (app.py:70), as word sequences so that startswith is a
\* prefix test and not an equality of labels.
TextLabel == <<"Preserve", "editable", "text", "(recommended)">>
ImageLabel == <<"Exact", "layout", "as", "images", "(fallback)">>
ModeOptions == {TextLabel, ImageLabel}
TextPrefix == <<"Preserve", "editable", "text">>

\* st.file_uploader result (app.py:66): nothing, a file fitz cannot open, or
\* a PDF of 1..MaxPages pages.
NoFile == [present |-> FALSE, valid |-> FALSE, pages |-> 0]
CorruptFile == [present |-> TRUE, valid |-> FALSE, pages |-> 0]
PdfFile(n) == [present |-> TRUE, valid |-> TRUE, pages |-> n]
Uploads == {NoFile, CorruptFile} \cup {PdfFile(n) : n \in 1..MaxPages}

VARIABLES
    pc,           \* position of the script run inside main()
    faults,       \* whether temp-file I/O of this environment can fail
    uploaded,     \* st.file_uploader value
    mode,         \* st.radio value
    total_pages,  \* page counter result, None = unknown
    start_page,   \* local start_page
    end_page,     \* local end_page (after line 103-104)
    end_input,    \* what the user typed into the end-page widget
    pressed,      \* the user clicked Convert in this run
    convert_btn,  \* st.button return value
    disk,         \* temp files created by this request that exist on disk
    out_path,     \* whether local out_path is bound
    passed,       \* page bounds passed to convert_pdf_to_docx_text
    invoked,      \* converters called in this run, in call order
    opens,        \* per handle: number of times it was opened
    closes,       \* per handle: number of close() calls
    live,         \* handles that still hold their resource
    i,            \* loop index of convert_pdf_to_docx_images
    body,         \* body of the python-docx Document built by image mode
    failedPage,   \* page index whose rasterization raised, None if none
    converted,    \* 1-based pages pdf2docx wrote to the output, text mode
    exc,          \* pending exception text, NoExc if none
    convExc,      \* exception text a converter raised in this run
    error,        \* st.error message, <<>> if none
    success,      \* st.success message, "" if none
    download,     \* st.download_button data, <<>> if not offered
    crashed       \* an exception propagated out of main()

vars == <<pc, faults, uploaded, mode, total_pages, start_page, end_page,
          end_input, pressed, convert_btn, disk, out_path, passed, invoked,
          opens, closes, live, i, body, failedPage, converted, exc, convExc,
          error, success, download, crashed>>

Handles == {"counter", "cv", "pdf_doc"}
NoBounds == [set |-> FALSE, start |-> None, end |-> None]

\* ------------------------------------------------------------ pure parts
\* Python truthiness of an int-or-None value.
Truthy(x) == x # None /\ x # 0

\* str.startswith on word sequences.
StartsWith(w, p) == Len(w) >= Len(p) /\ SubSeq(w, 1, Len(p)) = p

IsTextModeAlways(m) == TRUE
\* app.py:118, 160  mode.startswith("Preserve editable text")
IsTextMode(m) == StartsWith(m, TextPrefix)

\* app.py:106  st.button(..., disabled=(uploaded is None))
Button(click, up) == click /\ ~(~up.present)

\* app.py:108  if convert_btn and uploaded is not None
ShouldConvert(btn, up) == btn /\ up.present

\* app.py:103-104  if end_page == 0: end_page = None
NormalizeEnd(v) == IF v = 0 THEN None ELSE v

\* app.py:124
SanitizeStart(sp) == IF Truthy(sp) /\ sp >= 1 THEN sp ELSE None

SanitizeEndDropped(ep) == None
SanitizeEndNoneAsZero(ep) == IF ep = None THEN 0 ELSE ep
\* app.py:125
SanitizeEnd(ep) == IF Truthy(ep) /\ (ep = 0 \/ ep >= 1) THEN ep ELSE None

CounterOutcomeNoExcept(up) ==
    [total |-> IF up.valid THEN up.pages ELSE None,
     raised |-> IF up.valid THEN NoExc ELSE "FileDataError"]
\* app.py:87-90  try: fitz.open(...).page_count  except Exception: None
CounterOutcome(up) ==
    [total |-> IF up.valid THEN up.pages ELSE None, raised |-> NoExc]

PageBreakAfterEvery(k, n) == k < n
\* app.py:50  if i < pdf_doc.page_count - 1
PageBreakAfter(k, n) == k < n - 1

CloseOnlyOnSuccess(e) == e = NoExc
\* app.py:19-20  finally: cv.close()
CvFinally(e) == TRUE
\* app.py:52-53  finally: pdf_doc.close()
PdfDocFinally(e) == TRUE

\* app.py:117-152  an exception inside the try body goes to the except
\* clause, otherwise the body goes on at next
AfterTry(e, next) == IF e = NoExc THEN next ELSE "except"

ErrorMessageGeneric(e) == <<"Conversion failed: ", "unknown error">>
\* app.py:152  f"Conversion failed: {exc}"
ErrorMessage(e) == <<"Conversion failed: ", e>>

\* pdf2docx Converter.convert(start, end) as called at app.py:18: the pages
\* are range(len)[slice(int(start), int(end or len))], 0-based indexes.
PageIndexes(s, e, n) ==
    LET stop == IF Truthy(e) THEN e ELSE n
    IN {k \in 0..(n - 1) : s <= k /\ k < stop}

\* 1-based page numbers of a set of 0-based indexes.
UserPages(idx) == {k + 1 : k \in idx}

Picture(k) == [kind |-> "picture", page |-> k]
PageBreak(k) == [kind |-> "page_break", page |-> k]

\* ------------------------------------------------------------- the run
\* State after construction: no script run has started.  f fixes whether
\* temp-file I/O can fail in this environment.
Start(f) ==
    /\ pc = "idle"
    /\ faults = f
    /\ uploaded = NoFile
    /\ mode = TextLabel
    /\ total_pages = None
    /\ start_page = None
    /\ end_page = None
    /\ end_input = 0
    /\ pressed = FALSE
    /\ convert_btn = FALSE
    /\ disk = {}
    /\ out_path = FALSE
    /\ passed = NoBounds
    /\ invoked = <<>>
    /\ opens = [h \in Handles |-> 0]
    /\ closes = [h \in Handles |-> 0]
    /\ live = {}
    /\ i = 0
    /\ body = <<>>
    /\ failedPage = None
    /\ converted = {}
    /\ exc = NoExc
    /\ convExc = NoExc
    /\ error = <<>>
    /\ success = ""
    /\ download = <<>>
    /\ crashed = FALSE

Init == Start(FALSE)
InitFaults == Start(TRUE)

\* Outcomes of a temp-file system call: it can fail only where faults holds.
IoOutcomes == IF faults THEN {TRUE, FALSE} ELSE {TRUE}

\* app.py:61-80  a script run starts: the uploader and the radio are read,
\* start_page and end_page are None, every local of the last run is gone.
Rerun ==
    /\ pc \in {"idle", "done"}
    /\ \E up \in Uploads, m \in ModeOptions :
        /\ uploaded' = up
        /\ mode' = m
    /\ pc' = "counter_tmp"
    /\ total_pages' = None
    /\ start_page' = None
    /\ end_page' = None
    /\ end_input' = 0
    /\ pressed' = FALSE
    /\ convert_btn' = FALSE
    /\ disk' = {}
    /\ out_path' = FALSE
    /\ passed' = NoBounds
    /\ invoked' = <<>>
    /\ opens' = [h \in Handles |-> 0]
    /\ closes' = [h \in Handles |-> 0]
    /\ live' = {}
    /\ i' = 0
    /\ body' = <<>>
    /\ failedPage' = None
    /\ converted' = {}
    /\ exc' = NoExc
    /\ convExc' = NoExc
    /\ error' = <<>>
    /\ success' = ""
    /\ download' = <<>>
    /\ crashed' = FALSE
    /\ UNCHANGED faults

\* app.py:82-86  with NamedTemporaryFile(delete=False) as tmp_in: write.
\* The file exists once created; a failing write leaves the with block by
\* an exception that nothing in main() catches.
CounterTmp ==
    /\ pc = "counter_tmp"
    /\ IF ~uploaded.present
       THEN /\ pc' = "options"
            /\ UNCHANGED <<disk, crashed>>
       ELSE \E ok \in IoOutcomes :
            /\ disk' = disk \cup {"tmp_in"}
            /\ pc' = IF ok THEN "counter_open" ELSE "done"
            /\ crashed' = ~ok
    /\ UNCHANGED <<faults, uploaded, mode, total_pages, start_page, end_page,
                   end_input, pressed, convert_btn, out_path, passed, invoked,
                   opens, closes, live, i, body, failedPage, converted, exc,
                   convExc, error, success, download>>

\* app.py:87-90  total_pages = fitz.open(tmp_in_path).page_count, None on any
\* exception.  The Document is never closed by the code: whether its
\* resource is released when the temporary is dropped is up to the
\* interpreter's garbage collection, so both outcomes are possible.
CounterOpen ==
    /\ pc = "counter_open"
    /\ LET r == CounterOutcome(uploaded) IN
        /\ total_pages' = r.total
        /\ exc' = r.raised
    /\ IF uploaded.valid
       THEN /\ opens' = [opens EXCEPT !["counter"] = @ + 1]
            /\ \E collected \in BOOLEAN :
                 live' = IF collected THEN live ELSE live \cup {"counter"}
       ELSE UNCHANGED <<opens, live>>
    /\ pc' = "counter_unlink"
    /\ UNCHANGED <<faults, uploaded, mode, start_page, end_page, end_input,
                   pressed, convert_btn, disk, out_path, passed, invoked,
                   closes, i, body, failedPage, converted, convExc, error,
                   success, download, crashed>>

\* app.py:91-97  finally: os.unlink(tmp_in_path); an exception the try did
\* not handle goes on out of main().
CounterUnlink ==
    /\ pc = "counter_unlink"
    /\ disk' = disk \ {"tmp_in"}
    /\ pc' = IF exc = NoExc THEN "options" ELSE "done"
    /\ crashed' = (exc # NoExc)
    /\ UNCHANGED <<faults, uploaded, mode, total_pages, start_page, end_page,
                   end_input, pressed, convert_btn, out_path, passed, invoked,
                   opens, closes, live, i, body, failedPage, converted, exc,
                   convExc, error, success, download>>

\* app.py:98-104  the two number inputs (min_value 1 and 0) and the
\* normalisation of an end of 0.
Options ==
    /\ pc = "options"
    /\ \E sp \in 1..MaxStart, ep \in 0..MaxEnd :
        /\ start_page' = sp
        /\ end_input' = ep
        /\ end_page' = NormalizeEnd(ep)
    /\ pc' = "button"
    /\ UNCHANGED <<faults, uploaded, mode, total_pages, pressed, convert_btn,
                   disk, out_path, passed, invoked, opens, closes, live, i,
                   body, failedPage, converted, exc, convExc, error, success,
                   download, crashed>>

\* app.py:106-108  st.button and the test that starts a conversion.
ConvertButton ==
    /\ pc = "button"
    /\ \E click \in BOOLEAN :
        /\ pressed' = click
        /\ convert_btn' = Button(click, uploaded)
        /\ pc' = IF ShouldConvert(Button(click, uploaded), uploaded)
                 THEN "tmp_pdf" ELSE "done"
    /\ UNCHANGED <<faults, uploaded, mode, total_pages, start_page, end_page,
                   end_input, disk, out_path, passed, invoked, opens, closes,
                   live, i, body, failedPage, converted, exc, convExc, error,
                   success, download, crashed>>

\* app.py:111-115  the uploaded bytes go to a temp PDF, before the try
\* statement: a failing write propagates out of main().
TmpPdf ==
    /\ pc = "tmp_pdf"
    /\ \E ok \in IoOutcomes :
        /\ disk' = disk \cup {"tmp_pdf"}
        /\ pc' = IF ok THEN "dispatch" ELSE "done"
        /\ crashed' = ~ok
    /\ UNCHANGED <<faults, uploaded, mode, total_pages, start_page, end_page,
                   end_input, pressed, convert_btn, out_path, passed, invoked,
                   opens, closes, live, i, body, failedPage, converted, exc,
                   convExc, error, success, download>>

\* app.py:117-118, 141  the mode selects the branch.
Dispatch ==
    /\ pc = "dispatch"
    /\ pc' = IF IsTextMode(mode) THEN "text_tmp" ELSE "img_call"
    /\ UNCHANGED <<faults, uploaded, mode, total_pages, start_page, end_page,
                   end_input, pressed, convert_btn, disk, out_path, passed,
                   invoked, opens, closes, live, i, body, failedPage,
                   converted, exc, convExc, error, success, download, crashed>>

\* app.py:120-121  the temp DOCX pdf2docx will write to.
TextTmpDocx ==
    /\ pc = "text_tmp"
    /\ \E ok \in IoOutcomes :
        /\ disk' = IF ok THEN disk \cup {"tmp_docx"} ELSE disk
        /\ out_path' = ok
        /\ exc' = IF ok THEN NoExc ELSE "OSError"
        /\ pc' = AfterTry(IF ok THEN NoExc ELSE "OSError", "text_call")
    /\ UNCHANGED <<faults, uploaded, mode, total_pages, start_page, end_page,
                   end_input, pressed, convert_btn, passed, invoked, opens,
                   closes, live, i, body, failedPage, converted, convExc,
                   error, success, download, crashed>>

\* app.py:123-127  "Sanitize page range" and the call of
\* convert_pdf_to_docx_text(tmp_pdf_path, out_path, start=s, end=e).
TextCall ==
    /\ pc = "text_call"
    /\ passed' = [set |-> TRUE,
                  start |-> SanitizeStart(start_page),
                  end |-> SanitizeEnd(end_page)]
    /\ invoked' = Append(invoked, "convert_pdf_to_docx_text")
    /\ pc' = "cv_open"
    /\ UNCHANGED <<faults, uploaded, mode, total_pages, start_page, end_page,
                   end_input, pressed, convert_btn, disk, out_path, opens,
                   closes, live, i, body, failedPage, converted, exc, convExc,
                   error, success, download, crashed>>

\* app.py:16  cv = Converter(pdf_path): opens the PDF, raises on a file that
\* is no PDF (before the try of line 17).
CvOpen ==
    /\ pc = "cv_open"
    /\ IF uploaded.valid
       THEN /\ opens' = [opens EXCEPT !["cv"] = @ + 1]
            /\ live' = live \cup {"cv"}
            /\ pc' = "cv_convert"
            /\ UNCHANGED <<exc, convExc>>
       ELSE /\ exc' = "FileDataError"
            /\ convExc' = "FileDataError"
            /\ pc' = AfterTry("FileDataError", "cv_convert")
            /\ UNCHANGED <<opens, live>>
    /\ UNCHANGED <<faults, uploaded, mode, total_pages, start_page, end_page,
                   end_input, pressed, convert_btn, disk, out_path, passed,
                   invoked, closes, i, body, failedPage, converted, error,
                   success, download, crashed>>

\* What cv.convert(output_path, start=start, end=end) raises, given whether
\* parsing the selected pages went through: int(None) is a TypeError, a
\* parsing error aborts, and an empty selection is pdf2docx's
\* ConversionException "No parsed pages".
ConvertRaises(b, n, parsed) ==
    IF b.start = None THEN "TypeError"
    ELSE IF ~parsed THEN "ParseError"
    ELSE IF PageIndexes(b.start, b.end, n) = {} THEN "No parsed pages"
    ELSE NoExc

\* app.py:18  cv.convert(output_path, start=start, end=end)
CvConvert ==
    /\ pc = "cv_convert"
    /\ \E parsed \in BOOLEAN :
        LET r == ConvertRaises(passed, uploaded.pages, parsed) IN
        /\ exc' = r
        /\ convExc' = r
        /\ converted' = IF r = NoExc
                        THEN UserPages(PageIndexes(passed.start, passed.end,
                                                   uploaded.pages))
                        ELSE {}
    /\ pc' = "cv_close"
    /\ UNCHANGED <<faults, uploaded, mode, total_pages, start_page, end_page,
                   end_input, pressed, convert_btn, disk, out_path, passed,
                   invoked, opens, closes, live, i, body, failedPage, error,
                   success, download, crashed>>

\* app.py:19-20  finally: cv.close(); then the return or the re-raise.
CvClose ==
    /\ pc = "cv_close"
    /\ IF CvFinally(exc)
       THEN /\ closes' = [closes EXCEPT !["cv"] = @ + 1]
            /\ live' = live \ {"cv"}
       ELSE UNCHANGED <<closes, live>>
    /\ pc' = AfterTry(exc, "text_finish")
    /\ UNCHANGED <<faults, uploaded, mode, total_pages, start_page, end_page,
                   end_input, pressed, convert_btn, disk, out_path, passed,
                   invoked, opens, i, body, failedPage, converted, exc,
                   convExc, error, success, download, crashed>>

\* app.py:129-140  the DOCX is read back, success is shown and the download
\* is offered.
TextFinish ==
    /\ pc = "text_finish"
    /\ \E ok \in IoOutcomes :
        /\ exc' = IF ok THEN NoExc ELSE "OSError"
        /\ success' = IF ok THEN "Conversion complete." ELSE success
        /\ download' = IF ok
                       THEN <<[pages |-> converted, body |-> <<>>]>>
                       ELSE download
        /\ pc' = AfterTry(IF ok THEN NoExc ELSE "OSError", "finally")
    /\ UNCHANGED <<faults, uploaded, mode, total_pages, start_page, end_page,
                   end_input, pressed, convert_btn, disk, out_path, passed,
                   invoked, opens, closes, live, i, body, failedPage,
                   converted, convExc, error, crashed>>

\* app.py:143, 27-33  convert_pdf_to_docx_images(tmp_pdf_path) is called:
\* a new Document, then pdf_doc = fitz.open(pdf_path), which raises on a
\* file that is no PDF (before the try of line 34).
ImgCall ==
    /\ pc = "img_call"
    /\ invoked' = Append(invoked, "convert_pdf_to_docx_images")
    /\ body' = <<>>
    /\ i' = 0
    /\ IF uploaded.valid
       THEN /\ opens' = [opens EXCEPT !["pdf_doc"] = @ + 1]
            /\ live' = live \cup {"pdf_doc"}
            /\ pc' = IF 0 < uploaded.pages THEN "img_page" ELSE "img_close"
            /\ UNCHANGED <<exc, convExc>>
       ELSE /\ exc' = "FileDataError"
            /\ convExc' = "FileDataError"
            /\ pc' = AfterTry("FileDataError", "img_page")
            /\ UNCHANGED <<opens, live>>
    /\ UNCHANGED <<faults, uploaded, mode, total_pages, start_page, end_page,
                   end_input, pressed, convert_btn, disk, out_path, passed,
                   closes, failedPage, converted, error, success, download,
                   crashed>>

\* app.py:35-51  one iteration of the page loop: load and rasterize page i,
\* add the picture, add a page break except after the last page.  A raise
\* in load_page / get_pixmap / add_picture leaves the loop for the finally.
ImgPage ==
    /\ pc = "img_page"
    /\ \E ok \in BOOLEAN :
        IF ok
        THEN /\ body' = (IF PageBreakAfter(i, uploaded.pages)
                         THEN body \o <<Picture(i), PageBreak(i)>>
                         ELSE Append(body, Picture(i)))
             /\ i' = i + 1
             /\ pc' = IF i + 1 < uploaded.pages THEN "img_page" ELSE "img_close"
             /\ UNCHANGED <<exc, convExc, failedPage>>
        ELSE /\ exc' = "RasterError"
             /\ convExc' = "RasterError"
             /\ failedPage' = i
             /\ pc' = "img_close"
             /\ UNCHANGED <<body, i>>
    /\ UNCHANGED <<faults, uploaded, mode, total_pages, start_page, end_page,
                   end_input, pressed, convert_btn, disk, out_path, passed,
                   invoked, opens, closes, live, converted, error, success,
                   download, crashed>>

\* app.py:52-53  finally: pdf_doc.close(); then on to the save or the
\* re-raise.
ImgClose ==
    /\ pc = "img_close"
    /\ IF PdfDocFinally(exc)
       THEN /\ closes' = [closes EXCEPT !["pdf_doc"] = @ + 1]
            /\ live' = live \ {"pdf_doc"}
       ELSE UNCHANGED <<closes, live>>
    /\ pc' = AfterTry(exc, "img_finish")
    /\ UNCHANGED <<faults, uploaded, mode, total_pages, start_page, end_page,
                   end_input, pressed, convert_btn, disk, out_path, passed,
                   invoked, opens, i, body, failedPage, converted, exc,
                   convExc, error, success, download, crashed>>

\* app.py:55-58, 144-150  the document is saved to bytes and returned,
\* success is shown and the download is offered.
ImgFinish ==
    /\ pc = "img_finish"
    /\ success' = "Conversion complete (image-based)."
    /\ download' = <<[pages |-> {}, body |-> body]>>
    /\ pc' = "finally"
    /\ UNCHANGED <<faults, uploaded, mode, total_pages, start_page, end_page,
                   end_input, pressed, convert_btn, disk, out_path, passed,
                   invoked, opens, closes, live, i, body, failedPage,
                   converted, exc, convExc, error, crashed>>

\* app.py:151-152  except Exception as exc: st.error(...)
Except ==
    /\ pc = "except"
    /\ error' = ErrorMessage(exc)
    /\ exc' = NoExc
    /\ pc' = "finally"
    /\ UNCHANGED <<faults, uploaded, mode, total_pages, start_page, end_page,
                   end_input, pressed, convert_btn, disk, out_path, passed,
                   invoked, opens, closes, live, i, body, failedPage,
                   converted, convExc, success, download, crashed>>

\* app.py:153-163  finally: unlink the temp PDF; in text mode unlink
\* out_path, where an unbound out_path is a NameError that is swallowed.
Finally ==
    /\ pc = "finally"
    /\ disk' = (disk \ {"tmp_pdf"})
                 \ (IF IsTextMode(mode) /\ out_path THEN {"tmp_docx"} ELSE {})
    /\ pc' = "done"
    /\ UNCHANGED <<faults, uploaded, mode, total_pages, start_page, end_page,
                   end_input, pressed, convert_btn, out_path, passed, invoked,
                   opens, closes, live, i, body, failedPage, converted, exc,
                   convExc, error, success, download, crashed>>

Next ==
    \/ Rerun
    \/ CounterTmp
    \/ CounterOpen
    \/ CounterUnlink
    \/ Options
    \/ ConvertButton
    \/ TmpPdf
    \/ Dispatch
    \/ TextTmpDocx
    \/ TextCall
    \/ CvOpen
    \/ CvConvert
    \/ CvClose
    \/ TextFinish
    \/ ImgCall
    \/ ImgPage
    \/ ImgClose
    \/ ImgFinish
    \/ Except
    \/ Finally

\* Temp-file I/O never fails.
Spec == Init /\ [][Next]_vars
\* Temp-file I/O may fail (disk full, no permission).
SpecFaults == InitFaults /\ [][Next]_vars

\* ------------------------------------------------------------ properties
TextConverter == "convert_pdf_to_docx_text"
ImageConverter == "convert_pdf_to_docx_images"
SelectedConverter == IF mode = TextLabel THEN TextConverter ELSE ImageConverter

IsPicture(x) == x.kind = "picture"
IsPageBreak(x) == x.kind = "page_break"

\* Positions at which the converter called by this run has returned or
\* raised.
AfterConverter == {"text_finish", "img_finish", "except", "finally", "done"}

\* C1: when a request completes, none of the temp files it created (the
\* page counter's temp PDF, the temp PDF of the conversion, the text-mode
\* temp DOCX) is left on disk, also when a step after the creation of a temp
\* file fails.
C1_NoTempFileRemains == pc = "done" => disk = {}

\* C2: when convert_pdf_to_docx_images has processed a PDF of N pages
\* without error, the document holds exactly N pictures, those of pages
\* 0..N-1 in this order, and exactly N - 1 page breaks: one right after
\* every picture but the last, and the last picture ends the document.
C2_ImagesAndPageBreaks ==
    (mode = ImageLabel /\ (pc = "img_finish" \/ success # "")) =>
        LET n == uploaded.pages
            pictures == SelectSeq(body, IsPicture)
            breaks == SelectSeq(body, IsPageBreak)
        IN /\ pictures = [k \in 1..n |-> Picture(k - 1)]
           /\ Len(breaks) = n - 1
           /\ \A k \in 1..Len(body) :
                IsPicture(body[k]) =>
                    IF body[k].page < n - 1
                    THEN k < Len(body) /\ IsPageBreak(body[k + 1])
                    ELSE k = Len(body)
           /\ (success # "" => download = <<[pages |-> {}, body |-> body]>>)

C2_Witness ==
    /\ mode = ImageLabel
    /\ success # ""
    /\ uploaded.pages = 3
    /\ Len(body) = 5

\* C3: a text-mode conversion that succeeds with start s and end 0 on an
\* N-page PDF has converted exactly the pages s..N, counted from 1.
C3_RangeToEnd ==
    (mode = TextLabel /\ success # "" /\ end_input = 0) =>
        converted = start_page..uploaded.pages

\* C4: in text mode a range with a non-zero end below start, or a start
\* above the page count, never leads to a success message or a download,
\* and a request that converts with it ends with the failure reported.
BadRange ==
    /\ mode = TextLabel
    /\ uploaded.present
    /\ start_page # None
    /\ \/ end_input # 0 /\ end_input < start_page
       \/ uploaded.valid /\ start_page > uploaded.pages

C4_BadRangeFails ==
    BadRange =>
        /\ success = ""
        /\ download = <<>>
        /\ (pc = "done" /\ pressed) =>
              /\ Len(error) = 2
              /\ error[1] = "Conversion failed: "
              /\ ~crashed

C4_Witness ==
    /\ pc = "done"
    /\ mode = TextLabel
    /\ uploaded = PdfFile(5)
    /\ start_page = 4
    /\ end_input = 2
    /\ invoked = <<TextConverter>>
    /\ error = <<"Conversion failed: ", "No parsed pages">>

\* C5: an exception raised by either converter is caught inside the
\* request: no success message and no download are shown, nothing
\* propagates out of main, and the request ends with the failure message
\* that carries the exception's text.
C5_ConverterExceptionCaught ==
    convExc # NoExc =>
        /\ ~crashed
        /\ success = ""
        /\ download = <<>>
        /\ pc = "done" => error = <<"Conversion failed: ", convExc>>

C5_Witness ==
    /\ pc = "done"
    /\ convExc = "RasterError"
    /\ failedPage = 2
    /\ error = <<"Conversion failed: ", "RasterError">>

\* C6: with an upload that cannot be opened as a PDF the page counter
\* gives "unknown" and raises nothing, the Convert button stays enabled,
\* a press still calls the selected converter, and that converter's failure
\* ends as an error message, not as an exception out of main.
C6_CorruptUpload ==
    (uploaded.present /\ ~uploaded.valid) =>
        /\ total_pages = None
        /\ pc = "counter_unlink" => exc = NoExc
        /\ ~crashed
        /\ convert_btn = pressed
        /\ (pc = "done" /\ pressed) =>
              /\ invoked = <<SelectedConverter>>
              /\ convExc # NoExc
              /\ error = <<"Conversion failed: ", convExc>>
              /\ success = ""
              /\ download = <<>>

C6_Witness ==
    /\ pc = "done"
    /\ uploaded = CorruptFile
    /\ total_pages = None
    /\ pressed
    /\ invoked = <<ImageConverter>>
    /\ error = <<"Conversion failed: ", "FileDataError">>

\* C7: a converter is called only in a run where Convert was pressed with
\* a file uploaded (without a file the button is disabled); such a run calls
\* exactly one converter, the one the mode selects, exactly once, also when
\* the conversion failed.
C7_OneConverterPerPress ==
    /\ invoked # <<>> => (pressed /\ convert_btn /\ uploaded.present)
    /\ ~uploaded.present => ~convert_btn
    /\ Len(invoked) <= 1
    /\ (pc = "done" /\ pressed /\ uploaded.present) =>
          invoked = <<SelectedConverter>>

C7_Witness ==
    /\ pc = "done"
    /\ pressed
    /\ mode = ImageLabel
    /\ error # <<>>
    /\ invoked = <<ImageConverter>>

\* C8: a converter's handle is opened at most once and closed exactly once
\* by the time the converter has returned or raised, never closed before it
\* is opened; when page i of image mode raises, no later page is processed
\* and the handle is closed all the same.
C8_HandlesClosedOnce ==
    /\ \A h \in {"cv", "pdf_doc"} :
          /\ opens[h] <= 1
          /\ closes[h] <= opens[h]
          /\ h \in live <=> (opens[h] = 1 /\ closes[h] = 0)
          /\ pc \in AfterConverter => closes[h] = opens[h]
    /\ (pc \in {"img_call", "img_page"} /\ opens["pdf_doc"] = 1) =>
          closes["pdf_doc"] = 0
    /\ pc = "cv_convert" => (opens["cv"] = 1 /\ closes["cv"] = 0)
    /\ (failedPage # None /\ pc \in AfterConverter) =>
          /\ closes["pdf_doc"] = 1
          /\ i = failedPage
          /\ Len(SelectSeq(body, IsPicture)) = failedPage

C8_Witness ==
    /\ pc = "except"
    /\ uploaded.pages = 3
    /\ failedPage = 1
    /\ closes["pdf_doc"] = 1

\* C9: when a request completes, every document handle opened during it
\* has been released, the page counter's included.
C9_AllHandlesReleased == pc = "done" => live = {}

\* C10: the bounds passed to the text-mode converter are a start >= 1 and
\* an end that is unset or >= 1; an end input of 0 is passed as unset.
C10_PassedBounds ==
    passed.set =>
        /\ passed.start \in Nat
        /\ passed.start >= 1
        /\ passed.end = None \/ (passed.end \in Nat /\ passed.end >= 1)
        /\ end_input = 0 => passed.end = None

C10_Witness ==
    /\ passed.set
    /\ start_page = 2
    /\ end_input = 0
    /\ passed.start = 2
    /\ passed.end = None

====
